---------------------------- MODULE Spec2Model ----------------------------
(***************************************************************************)
(* Session state machine of the chat bot: the per-user navigation stack,   *)
(* the input-mode flags, the process-wide label index and the handlers     *)
(* that run on /start and on every text message.  A handler is a coroutine:*)
(* it runs without interruption until it awaits a gateway call, and the    *)
(* answer of the gateway resumes it; handlers of different messages        *)
(* interleave at these points.                                             *)
(***************************************************************************)
EXTENDS Integers, Sequences, FiniteSets, Bags, TLC

(* ------------------------------ bounds -------------------------------- *)
\* handlers that may be suspended on a gateway call at the same time
MaxTasks == 2
\* an entry is pushed only below this stack depth
MaxDepth == 3
\* the longest button list a content node is given when make_keyboard is
\* applied on its own
MaxButtons == 3

\* the chat users, and those of them who send /start
Users == {1, 2}
Starters == {1}

(* ------------------------------- texts -------------------------------- *)
\* A text is its case-folded, trimmed body plus what strip() and lower()
\* remove: surrounding blanks (pad) and upper-case letters (upper).
Txt(b, up, pd) == [body |-> b, upper |-> up, pad |-> pd]

\* str.strip()
Strip(t) == [t EXCEPT !.pad = FALSE]

\* str.lower()
Lower(t) == [t EXCEPT !.upper = FALSE]

\* keyboard_utils.normalize_text: NFKC(text.strip().lower())
normalize_text(t) == Lower(Strip(t))

\* "⬅️ Назад"
BackLabel == Txt("back", TRUE, FALSE)
\* "🏠 В начало"
HomeLabel == Txt("home", TRUE, FALSE)
\* "✉ Написать в поддержку"
SupportLabel == Txt("support", TRUE, FALSE)
\* "➕ Новая беседа"
NewConvLabel == Txt("new", TRUE, FALSE)
\* "📂 Мои беседы"
MyConvLabel == Txt("list", TRUE, FALSE)

(* ------------------------------ actions ------------------------------- *)
\* Values of the label index and entries of the navigation stack: a node id
\* (an int in the source) or one of the string tags.
Act(tag, id) == [tag |-> tag, id |-> id]
NodeId(n) == Act("node", n)
SupportMenu == Act("support_menu", 0)
NewConversation == Act("new_conversation", 0)
ListConversations == Act("list_conversations", 0)
Ticket(id) == Act("ticket", id)
BackAct == Act("back", 0)
HomeAct == Act("home", 0)
NoAct == Act("none", 0)

(* ------------------------------ gateway ------------------------------- *)
\* The remote content tree the gateway serves.  Node 1 is the root; nodes 1
\* and 2 are menus, nodes 3 and 4 are leaves.  Both menus label a leaf
\* "Info"; the last button of the root has no next_node_id.
NoNode == 0
RootId == 1
Btn(t, n) == [text |-> t, next_node_id |-> n]
Buttons(n) ==
    CASE n = 1 -> << Btn(Txt("menu", TRUE, FALSE), 2),
                     Btn(Txt("info", TRUE, FALSE), 3),
                     Btn(Txt("soon", TRUE, FALSE), NoNode) >>
      [] n = 2 -> << Btn(Txt("info", TRUE, FALSE), 4) >>
      [] OTHER -> << >>

\* the one ticket the gateway knows, and the label its button carries
TicketNo == 42
TicketLabel(id) == Txt("t42", TRUE, FALSE)

\* Outcomes of a gateway call: "ok" (a well-formed answer), "fail" (None:
\* HTTP status or request error), "bad" (an answer lacking the field the
\* handler reads), "empty" (an empty list).
LoginOutcomes == {"ok", "fail", "bad"}
RootOutcomes == {"ok", "fail", "bad"}
NodeOutcomes == {"ok", "fail", "bad"}
ListOutcomes == {"ok", "empty", "fail"}
MessagesOutcomes == {"ok", "empty", "fail", "bad"}
CreateOutcomes == {"ok", "fail", "bad"}
SendOutcomes == {"ok", "fail", "bad"}

\* What a user may type or tap: every label as displayed, and the home
\* label typed by hand in lower case with blanks around it.
Texts ==
    { BackLabel, HomeLabel, SupportLabel, NewConvLabel, MyConvLabel,
      TicketLabel(TicketNo),
      Txt("menu", TRUE, FALSE), Txt("info", TRUE, FALSE),
      Txt("home", FALSE, TRUE) }

\* what a user sends when asked for the user name
Names == { Txt("home", FALSE, TRUE) }

\* A user who never sends /start only taps the menu button the others were
\* shown.
TextsOf(u) ==
    IF u \in Starters THEN Texts
    ELSE { Txt("menu", TRUE, FALSE) }

\* what a user sends while an earlier message of theirs is still handled
OverlapTexts == { BackLabel }

(* ---------------------------- dictionaries ---------------------------- *)
\* d[k] = v
Put(d, k, v) == [x \in DOMAIN d \cup {k} |-> IF x = k THEN v ELSE d[x]]

\* d.pop(k, None)
Del(d, k) == [x \in DOMAIN d \ {k} |-> d[x]]

\* d.get(k): the value, or NoAct for None
Get(d, k) == IF k \in DOMAIN d THEN d[k] ELSE NoAct

\* d[k] = v for every <<k, v>> of a sequence, in order (last write wins)
RECURSIVE PutAll(_, _)
PutAll(d, kvs) ==
    IF kvs = << >> THEN d
    ELSE PutAll(Put(d, Head(kvs)[1], Head(kvs)[2]), Tail(kvs))

EmptyDict == [x \in {} |-> NoAct]

(* ------------------------------- state -------------------------------- *)
VARIABLES
    user_nav_stack,            \* dict user -> list of stack entries
    waiting_for_message,       \* set of users
    user_ticket_id,            \* dict user -> ticket id
    creating_conversation,     \* keys of the dict user -> True
    awaiting_username,         \* keys of the dict user -> True
    awaiting_password,         \* dict user -> captured user name
    api_token,                 \* ApiClient.token: 0 (None) or who logged in
    normalized_button_actions, \* dict normalized label -> action
    tasks,                     \* bag of handlers suspended on a gateway call
    view,                      \* what the handlers did last, and for whom
    children_buttons,          \* make_keyboard: the 'buttons' of the node
    markup                     \* make_keyboard: the ReplyKeyboardMarkup built

vars == << user_nav_stack, waiting_for_message, user_ticket_id,
           creating_conversation, awaiting_username, awaiting_password,
           api_token, normalized_button_actions, tasks, view,
           children_buttons, markup >>

session == << user_nav_stack, waiting_for_message, user_ticket_id,
              creating_conversation, awaiting_username, awaiting_password >>

\* The last thing a handler did towards a user: the user, the router branch
\* the handler runs in (op), the kind of message sent ("fault" for an
\* exception that leaves the handler without a message), the node or ticket
\* shown, and for a menu whether it was built with is_root (no back/home row).
V(u, op, kind, id, root) ==
    [to |-> u, op |-> op, kind |-> kind, id |-> id, root |-> root]

\* user_nav_stack.get(u), with the empty list for None
StackOf(stk, u) == IF u \in DOMAIN stk THEN stk[u] ELSE << >>

\* Push assigning a fresh list instead of appending
PushReplaces(stk, u, e) == Put(stk, u, << e >>)

\* user_nav_stack.setdefault(u, []).append(e)
Push(stk, u, e) == Put(stk, u, Append(StackOf(stk, u), e))

\* the depth bound of the model: no push at MaxDepth
CanPush(stk, u) == Len(StackOf(stk, u)) < MaxDepth

\* Pop with the pop left out
PopKeeps(stk, u) == stk

\* user_nav_stack[u].pop()
Pop(stk, u) == Put(stk, u, SubSeq(stk[u], 1, Len(stk[u]) - 1))

\* user_nav_stack[u][-1] (NoAct stands for the IndexError on an empty list)
Top(stk, u) == IF stk[u] = << >> THEN NoAct ELSE stk[u][Len(stk[u])]

\* A suspended handler: its user, the router branch that started it (op),
\* the call it awaits (pc) and the locals it resumes with.
Task(u, op, pc, arg, back) ==
    [user |-> u, op |-> op, pc |-> pc, arg |-> arg, back |-> back]

\* A keyboard: whether make_keyboard has returned it, the is_root it was
\* built with, and its rows of button texts (ReplyKeyboardMarkup.keyboard).
Keyboard(built, root, rows) ==
    [built |-> built, is_root |-> root, keyboard |-> rows]
NoMarkup == Keyboard(FALSE, FALSE, << >>)

Init ==
    /\ user_nav_stack = [x \in {} |-> << >>]
    /\ waiting_for_message = {}
    /\ user_ticket_id = [x \in {} |-> 0]
    /\ creating_conversation = {}
    /\ awaiting_username = {}
    /\ awaiting_password = [x \in {} |-> BackLabel]
    /\ api_token = 0
    /\ normalized_button_actions = EmptyDict
    /\ tasks = EmptyBag
    /\ view = V(0, "none", "none", 0, FALSE)
    /\ children_buttons = << >>
    /\ markup = NoMarkup


(* ----------------------------- keyboards ------------------------------ *)
\* the index entries a builder writes for the back/home row
NavEntries ==
    << << normalize_text(BackLabel), BackAct >>,
       << normalize_text(HomeLabel), HomeAct >> >>

\* make_keyboard: the entries of the buttons that have a next_node_id
RECURSIVE ButtonEntries(_)
ButtonEntries(bs) ==
    IF bs = << >> THEN << >>
    ELSE (IF Head(bs).next_node_id # NoNode
          THEN << << normalize_text(Head(bs).text),
                     NodeId(Head(bs).next_node_id) >> >>
          ELSE << >>) \o ButtonEntries(Tail(bs))

\* make_keyboard: every index entry written for a button list, in order
KeyboardEntries(bs, is_root) ==
    ButtonEntries(bs)
    \o << << normalize_text(SupportLabel), SupportMenu >> >>
    \o (IF is_root THEN << >> ELSE NavEntries)

\* make_keyboard: the index after the keyboard of a content node is built
make_keyboard(idx, node_id, is_root) ==
    PutAll(idx, KeyboardEntries(Buttons(node_id), is_root))

\* make_keyboard: the loop over enumerate(children_buttons), at button i with
\* current_row_buttons = row and the rows added to the markup so far.  A row
\* is added only while a button with a next_node_id is handled, when it is
\* the second of its row or the last of the list; what current_row_buttons
\* holds when the loop ends is not added.
RECURSIVE ButtonRows(_, _, _, _)
ButtonRows(bs, i, row, rows) ==
    IF i > Len(bs) THEN rows
    ELSE IF bs[i].next_node_id = NoNode
         THEN ButtonRows(bs, i + 1, row, rows)
         ELSE IF Len(row) + 1 = 2 \/ i = Len(bs)
              THEN ButtonRows(bs, i + 1, << >>,
                              Append(rows, Append(row, bs[i].text)))
              ELSE ButtonRows(bs, i + 1, Append(row, bs[i].text), rows)

\* make_keyboard: the rows of the markup it returns
KeyboardRows(bs, is_root) ==
    ButtonRows(bs, 1, << >>, << >>)
    \o << << SupportLabel >> >>
    \o (IF is_root THEN << >> ELSE << << BackLabel, HomeLabel >> >>)

\* build_ticket_chat_keyboard
build_ticket_chat_keyboard(idx) == PutAll(idx, NavEntries)

\* build_support_menu_keyboard
build_support_menu_keyboard(idx) ==
    PutAll(idx,
           << << normalize_text(NewConvLabel), NewConversation >>,
              << normalize_text(MyConvLabel), ListConversations >> >>
           \o NavEntries)

\* build_user_tickets_keyboard: one entry per ticket, then back/home
build_user_tickets_keyboard(idx, tickets) ==
    PutAll(idx,
           [i \in 1..Len(tickets) |->
               << normalize_text(TicketLabel(tickets[i])), Ticket(tickets[i]) >>]
           \o NavEntries)

(* ------------------------------- tasks -------------------------------- *)
CanSpawn == BagCardinality(tasks) < MaxTasks

\* the handler suspends on its first gateway call
Spawn(t) == tasks (+) SetToBag({t})

\* the suspended handler k ends
Finish(k) == tasks (-) SetToBag({k})

\* the suspended handler k goes on to await the next call
Await(k, pc) == (tasks (-) SetToBag({k})) (+) SetToBag({[k EXCEPT !.pc = pc]})

\* a handler of this user is suspended
Busy(u) == \E k \in BagToSet(tasks) : k.user = u

\* bot.send_message / message.answer to user u
Say(u, op, kind, id, root) == V(u, op, kind, id, root)

(* ------------------------------ /start -------------------------------- *)
\* main_bot.start_handler
start_handler(u) ==
    /\ awaiting_username' = awaiting_username \cup {u}
    /\ view' = Say(u, "start", "ask_username", 0, FALSE)
    /\ UNCHANGED << user_nav_stack, waiting_for_message, user_ticket_id,
                    creating_conversation, awaiting_password, api_token,
                    normalized_button_actions, tasks >>

(* ------------------------------- router ------------------------------- *)
\* Route testing the back/home labels before the credential flags
RouteLabelsFirst(u, t) ==
    IF normalize_text(t) = normalize_text(BackLabel) THEN "back"
    ELSE IF normalize_text(t) = normalize_text(HomeLabel) THEN "home"
    ELSE IF u \in awaiting_username THEN "username"
    ELSE IF u \in DOMAIN awaiting_password THEN "password"
    ELSE IF u \in creating_conversation THEN "create"
    ELSE IF u \in waiting_for_message THEN "send"
    ELSE "nav"

\* Route testing awaiting_password before awaiting_username
RoutePasswordFirst(u, t) ==
    IF u \in DOMAIN awaiting_password THEN "password"
    ELSE IF u \in awaiting_username THEN "username"
    ELSE IF normalize_text(t) = normalize_text(BackLabel) THEN "back"
    ELSE IF normalize_text(t) = normalize_text(HomeLabel) THEN "home"
    ELSE IF u \in creating_conversation THEN "create"
    ELSE IF u \in waiting_for_message THEN "send"
    ELSE "nav"

\* text_message_handler: the branch taken for a text (first match wins)
Route(u, t) ==
    IF u \in awaiting_username THEN "username"
    ELSE IF u \in DOMAIN awaiting_password THEN "password"
    ELSE IF normalize_text(t) = normalize_text(BackLabel) THEN "back"
    ELSE IF normalize_text(t) = normalize_text(HomeLabel) THEN "home"
    ELSE IF u \in creating_conversation THEN "create"
    ELSE IF u \in waiting_for_message THEN "send"
    ELSE "nav"

\* handle_username_input
handle_username_input(u, t) ==
    /\ Route(u, t) = "username"
    /\ awaiting_username' = awaiting_username \ {u}
    /\ awaiting_password' = Put(awaiting_password, u, Strip(t))
    /\ view' = Say(u, "username", "ask_password", 0, FALSE)
    /\ UNCHANGED << user_nav_stack, waiting_for_message, user_ticket_id,
                    creating_conversation, api_token,
                    normalized_button_actions, tasks >>

\* PopPassword reading the user name without removing it
PeekPassword(u) == awaiting_password

\* handle_password_input: awaiting_password.pop(user_id)
PopPassword(u) == Del(awaiting_password, u)

\* handle_password_input, up to the await of api.login
handle_password_input(u, t) ==
    /\ Route(u, t) = "password"
    /\ CanSpawn
    /\ awaiting_password' = PopPassword(u)
    /\ tasks' = Spawn(Task(u, "password", "login", NoAct, FALSE))
    /\ UNCHANGED << user_nav_stack, waiting_for_message, user_ticket_id,
                    creating_conversation, awaiting_username, api_token,
                    normalized_button_actions, view >>

\* ApiClient.login returns into handle_password_input, which on a token
\* calls reset_to_root_menu (suspending on get_root_node)
LoginReturn(k, r) ==
    LET u == k.user
    IN  /\ k.pc = "login"
        /\ r \in LoginOutcomes
        /\ CASE r = "ok" ->
                  /\ api_token' = u
                  /\ tasks' = Await(k, "root")
                  /\ view' = view
             [] r = "fail" ->
                  /\ api_token' = api_token
                  /\ tasks' = Finish(k)
                  /\ view' = Say(u, k.op, "bad_credentials", 0, FALSE)
             [] OTHER ->
                  \* no "token" in the answer: KeyError leaves the handler
                  /\ api_token' = api_token
                  /\ tasks' = Finish(k)
                  /\ view' = Say(u, k.op, "fault", 0, FALSE)
        /\ UNCHANGED << session, normalized_button_actions >>

\* RootStack appending the root to the old stack instead of replacing it
RootStackAppends(stk, u, id) == Push(stk, u, NodeId(id))

\* RootStack rebinding the whole dictionary to the one user's stack
RootStackOnly(stk, u, id) == [x \in {u} |-> << NodeId(id) >>]

\* reset_to_root_menu: user_nav_stack[user_id] = [root_node_data["id"]]
RootStack(stk, u, id) == Put(stk, u, << NodeId(id) >>)

\* reset_to_root_menu after get_root_node returns, with show_main_menu
RootReturn(k, r) ==
    LET u == k.user
    IN  /\ k.pc = "root"
        /\ r \in RootOutcomes
        /\ tasks' = Finish(k)
        /\ CASE r = "ok" ->
                  /\ user_nav_stack' = RootStack(user_nav_stack, u, RootId)
                  /\ normalized_button_actions' =
                        make_keyboard(normalized_button_actions, RootId, TRUE)
                  /\ view' = Say(u, k.op, "menu", RootId, TRUE)
             [] r = "fail" ->
                  /\ view' = Say(u, k.op, "root_unavailable", 0, FALSE)
                  /\ UNCHANGED << user_nav_stack, normalized_button_actions >>
             [] OTHER ->
                  \* no "id" in the answer: KeyError leaves the handler
                  /\ view' = Say(u, k.op, "fault", 0, FALSE)
                  /\ UNCHANGED << user_nav_stack, normalized_button_actions >>
        /\ UNCHANGED << waiting_for_message, user_ticket_id,
                        creating_conversation, awaiting_username,
                        awaiting_password, api_token >>

(* ----------------------------- navigation ---------------------------- *)
\* handle_navigation_actions up to its first await, on the stacks stk (the
\* caller may already have popped).  It writes the stack, creating_conversation,
\* the index, the view and the task table.
handle_navigation_actions(u, action, back, op, stk) ==
    CASE action = SupportMenu ->
           \* open_support_menu
           /\ ~back => CanPush(stk, u)
           /\ user_nav_stack' = IF back THEN stk ELSE Push(stk, u, SupportMenu)
           /\ normalized_button_actions' =
                 build_support_menu_keyboard(normalized_button_actions)
           /\ view' = Say(u, op, "support", 0, FALSE)
           /\ UNCHANGED << creating_conversation, tasks >>
      [] action = NewConversation ->
           \* request_new_conversation
           /\ creating_conversation' = creating_conversation \cup {u}
           /\ user_nav_stack' = stk
           /\ view' = Say(u, op, "ask_title", 0, FALSE)
           /\ UNCHANGED << normalized_button_actions, tasks >>
      [] action = ListConversations ->
           \* show_user_conversations, up to the await of get_user_tickets
           /\ CanSpawn
           /\ ~back => CanPush(stk, u)
           /\ user_nav_stack' =
                 IF back THEN stk ELSE Push(stk, u, ListConversations)
           /\ tasks' = Spawn(Task(u, op, "list", action, back))
           /\ UNCHANGED << creating_conversation, normalized_button_actions, view >>
      [] action.tag = "ticket" ->
           \* show_ticket_messages, up to the await of get_ticket_messages
           /\ CanSpawn
           /\ user_nav_stack' = stk
           /\ tasks' = Spawn(Task(u, op, "ticket", action, back))
           /\ UNCHANGED << creating_conversation, normalized_button_actions, view >>
      [] action = BackAct ->
           /\ CanSpawn
           /\ IF u \in DOMAIN stk /\ Len(stk[u]) > 1
              THEN /\ user_nav_stack' = Pop(stk, u)
                   /\ tasks' = Spawn(Task(u, op, "node", Top(Pop(stk, u), u), TRUE))
              ELSE /\ user_nav_stack' = stk
                   /\ tasks' = Spawn(Task(u, op, "root", NoAct, FALSE))
           /\ UNCHANGED << creating_conversation, normalized_button_actions, view >>
      [] action = HomeAct ->
           /\ CanSpawn
           /\ user_nav_stack' = stk
           /\ tasks' = Spawn(Task(u, op, "root", NoAct, FALSE))
           /\ UNCHANGED << creating_conversation, normalized_button_actions, view >>
      [] action.tag = "node" ->
           \* navigate_content_node, up to the await of get_content_node
           /\ CanSpawn
           /\ user_nav_stack' = stk
           /\ tasks' = Spawn(Task(u, op, "node", action, back))
           /\ UNCHANGED << creating_conversation, normalized_button_actions, view >>
      [] OTHER ->
           /\ user_nav_stack' = stk
           /\ view' = Say(u, op, "unknown_action", 0, FALSE)
           /\ UNCHANGED << creating_conversation, normalized_button_actions, tasks >>

\* reset_to_root_menu, up to the await of get_root_node
reset_to_root_menu(u, op) ==
    /\ CanSpawn
    /\ tasks' = Spawn(Task(u, op, "root", NoAct, FALSE))
    /\ UNCHANGED << user_nav_stack, creating_conversation,
                    normalized_button_actions, view >>

\* BackPops with the depth test off by one
BackPopsAtOne(u) == u \in DOMAIN user_nav_stack /\ Len(user_nav_stack[u]) >= 1

\* handle_back_action: the test that sends Back to the previous entry
BackPops(u) == u \in DOMAIN user_nav_stack /\ Len(user_nav_stack[u]) > 1

\* handle_back_action
handle_back_action(u, t) ==
    /\ Route(u, t) = "back"
    /\ waiting_for_message' = waiting_for_message \ {u}
    /\ user_ticket_id' = Del(user_ticket_id, u)
    /\ IF BackPops(u)
       THEN handle_navigation_actions(u, Top(Pop(user_nav_stack, u), u), TRUE,
                                      "back", Pop(user_nav_stack, u))
       ELSE reset_to_root_menu(u, "back")
    /\ UNCHANGED << awaiting_username, awaiting_password, api_token >>

\* HomeClears forgetting the selected ticket
HomeKeepsTicket(u) ==
    /\ waiting_for_message' = waiting_for_message \ {u}
    /\ user_ticket_id' = user_ticket_id

\* handle_home_action: the flags it clears
HomeClears(u) ==
    /\ waiting_for_message' = waiting_for_message \ {u}
    /\ user_ticket_id' = Del(user_ticket_id, u)

\* handle_home_action
handle_home_action(u, t) ==
    /\ Route(u, t) = "home"
    /\ HomeClears(u)
    /\ reset_to_root_menu(u, "home")
    /\ UNCHANGED << awaiting_username, awaiting_password, api_token >>

\* handle_navigation_or_fallback
handle_navigation_or_fallback(u, t) ==
    /\ Route(u, t) = "nav"
    /\ LET action == Get(normalized_button_actions, normalize_text(t))
       IN  IF action = NoAct
           THEN /\ view' = Say(u, "nav", "unknown_command", 0, FALSE)
                /\ UNCHANGED << user_nav_stack, creating_conversation,
                                normalized_button_actions, tasks >>
           ELSE handle_navigation_actions(u, action, FALSE, "nav",
                                          user_nav_stack)
    /\ UNCHANGED << waiting_for_message, user_ticket_id, awaiting_username,
                    awaiting_password, api_token >>

\* HasChildren taking every node for a menu
HasChildrenAlways(n) == TRUE

\* navigate_content_node: bool(node_data.get("buttons"))
HasChildren(n) == Buttons(n) # << >>

\* NodeReturn pushing the entry although the fetch gave no node
NodeReturnPushesAnyway(k, r) ==
    LET u == k.user
        n == k.arg.id
        has_children_buttons == HasChildren(n)
        is_root == StackOf(user_nav_stack, u) = << NodeId(n) >>
        pushes == /\ ~k.back
                  /\ \/ StackOf(user_nav_stack, u) = << >>
                     \/ Top(user_nav_stack, u) # NodeId(n)
    IN  /\ k.pc = "node"
        /\ r \in NodeOutcomes
        /\ k.arg.tag # "node" => r = "fail"
        /\ tasks' = Finish(k)
        /\ IF r # "ok"
           THEN \* None, or an answer without "node"
                /\ view' = Say(u, k.op, "section_unavailable", 0, FALSE)
                /\ user_nav_stack' =
                      IF pushes /\ CanPush(user_nav_stack, u)
                      THEN Push(user_nav_stack, u, k.arg)
                      ELSE user_nav_stack
                /\ UNCHANGED normalized_button_actions
           ELSE IF has_children_buttons
           THEN /\ pushes => CanPush(user_nav_stack, u)
                /\ user_nav_stack' =
                      IF pushes THEN Push(user_nav_stack, u, NodeId(n))
                      ELSE user_nav_stack
                /\ normalized_button_actions' =
                      make_keyboard(normalized_button_actions, n, is_root)
                /\ view' = Say(u, k.op, "menu", n, is_root)
           ELSE /\ view' = Say(u, k.op, "leaf", n, FALSE)
                /\ UNCHANGED << user_nav_stack, normalized_button_actions >>
        /\ UNCHANGED << waiting_for_message, user_ticket_id,
                        creating_conversation, awaiting_username,
                        awaiting_password, api_token >>

\* navigate_content_node after get_content_node returns
NodeReturn(k, r) ==
    LET u == k.user
        n == k.arg.id
        has_children_buttons == HasChildren(n)
        is_root == StackOf(user_nav_stack, u) = << NodeId(n) >>
        pushes == /\ ~k.back
                  /\ \/ StackOf(user_nav_stack, u) = << >>
                     \/ Top(user_nav_stack, u) # NodeId(n)
    IN  /\ k.pc = "node"
        /\ r \in NodeOutcomes
        /\ k.arg.tag # "node" => r = "fail"
        /\ tasks' = Finish(k)
        /\ IF r # "ok"
           THEN \* None, or an answer without "node"
                /\ view' = Say(u, k.op, "section_unavailable", 0, FALSE)
                /\ UNCHANGED << user_nav_stack, normalized_button_actions >>
           ELSE IF has_children_buttons
           THEN /\ pushes => CanPush(user_nav_stack, u)
                /\ user_nav_stack' =
                      IF pushes THEN Push(user_nav_stack, u, NodeId(n))
                      ELSE user_nav_stack
                /\ normalized_button_actions' =
                      make_keyboard(normalized_button_actions, n, is_root)
                /\ view' = Say(u, k.op, "menu", n, is_root)
           ELSE /\ view' = Say(u, k.op, "leaf", n, FALSE)
                /\ UNCHANGED << user_nav_stack, normalized_button_actions >>
        /\ UNCHANGED << waiting_for_message, user_ticket_id,
                        creating_conversation, awaiting_username,
                        awaiting_password, api_token >>

\* show_user_conversations after get_user_tickets returns
ListReturn(k, r) ==
    LET u == k.user
    IN  /\ k.pc = "list"
        /\ r \in ListOutcomes
        /\ tasks' = Finish(k)
        /\ IF r = "ok"
           THEN /\ normalized_button_actions' =
                      build_user_tickets_keyboard(normalized_button_actions,
                                                  << TicketNo >>)
                /\ view' = Say(u, k.op, "tickets", 0, FALSE)
           ELSE /\ view' = Say(u, k.op, "no_tickets", 0, FALSE)
                /\ UNCHANGED normalized_button_actions
        /\ UNCHANGED << session, api_token >>

\* show_ticket_messages after get_ticket_messages returns: the push and the
\* transcript, up to the await that sends it
TicketReturn(k, r) ==
    LET u == k.user
    IN  /\ k.pc = "ticket"
        /\ r \in MessagesOutcomes
        /\ ~k.back => CanPush(user_nav_stack, u)
        /\ user_nav_stack' =
              IF k.back THEN user_nav_stack ELSE Push(user_nav_stack, u, k.arg)
        /\ CASE r = "ok" ->
                  /\ tasks' = Await(k, "ticket_arm")
                  /\ view' = Say(u, k.op, "transcript", k.arg.id, FALSE)
             [] r \in {"empty", "fail"} ->
                  /\ tasks' = Await(k, "ticket_arm")
                  /\ view' = Say(u, k.op, "empty_ticket", k.arg.id, FALSE)
             [] OTHER ->
                  \* a message without sender_id: KeyError leaves the handler
                  /\ tasks' = Finish(k)
                  /\ view' = Say(u, k.op, "fault", k.arg.id, FALSE)
        /\ UNCHANGED << waiting_for_message, user_ticket_id,
                        creating_conversation, awaiting_username,
                        awaiting_password, api_token, normalized_button_actions >>

\* TicketArm arming the reply mode only on a fresh navigation
TicketArmUnlessBack(k) ==
    LET u == k.user
    IN  /\ k.pc = "ticket_arm"
        /\ user_ticket_id' =
              IF k.back THEN user_ticket_id
              ELSE Put(user_ticket_id, u, k.arg.id)
        /\ waiting_for_message' =
              IF k.back THEN waiting_for_message
              ELSE waiting_for_message \cup {u}
        /\ normalized_button_actions' =
              build_ticket_chat_keyboard(normalized_button_actions)
        /\ tasks' = Finish(k)
        /\ view' = Say(u, k.op, "ticket", k.arg.id, FALSE)
        /\ UNCHANGED << user_nav_stack, creating_conversation,
                        awaiting_username, awaiting_password, api_token >>

\* TicketArm entering the reply mode without recording the ticket
TicketArmWithoutId(k) ==
    LET u == k.user
    IN  /\ k.pc = "ticket_arm"
        /\ user_ticket_id' = user_ticket_id
        /\ waiting_for_message' = waiting_for_message \cup {u}
        /\ normalized_button_actions' =
              build_ticket_chat_keyboard(normalized_button_actions)
        /\ tasks' = Finish(k)
        /\ view' = Say(u, k.op, "ticket", k.arg.id, FALSE)
        /\ UNCHANGED << user_nav_stack, creating_conversation,
                        awaiting_username, awaiting_password, api_token >>

\* show_ticket_messages, from the transcript to its end: arms the reply mode
TicketArm(k) ==
    LET u == k.user
    IN  /\ k.pc = "ticket_arm"
        /\ user_ticket_id' = Put(user_ticket_id, u, k.arg.id)
        /\ waiting_for_message' = waiting_for_message \cup {u}
        /\ normalized_button_actions' =
              build_ticket_chat_keyboard(normalized_button_actions)
        /\ tasks' = Finish(k)
        /\ view' = Say(u, k.op, "ticket", k.arg.id, FALSE)
        /\ UNCHANGED << user_nav_stack, creating_conversation,
                        awaiting_username, awaiting_password, api_token >>

(* ------------------------------ tickets ------------------------------- *)
\* handle_conversation_creation, up to the await of create_ticket
handle_conversation_creation(u, t) ==
    /\ Route(u, t) = "create"
    /\ CanSpawn
    /\ tasks' = Spawn(Task(u, "create", "create", NoAct, FALSE))
    /\ UNCHANGED << session, api_token, normalized_button_actions, view >>

\* handle_conversation_creation after create_ticket returns
CreateReturn(k, r) ==
    LET u == k.user
    IN  /\ k.pc = "create"
        /\ r \in CreateOutcomes
        /\ creating_conversation' = creating_conversation \ {u}
        /\ IF r = "ok"
           THEN /\ tasks' = Await(k, "create_list")
                /\ view' = view
           ELSE \* None, or an answer without "ticket_id"
                /\ tasks' = Finish(k)
                /\ view' = Say(u, k.op, "create_failed", 0, FALSE)
        /\ UNCHANGED << user_nav_stack, waiting_for_message, user_ticket_id,
                        awaiting_username, awaiting_password, api_token,
                        normalized_button_actions >>

\* handle_conversation_creation after get_user_tickets returns
CreateListReturn(k, r) ==
    LET u == k.user
    IN  /\ k.pc = "create_list"
        /\ r \in ListOutcomes
        /\ CanPush(user_nav_stack, u)
        /\ user_nav_stack' = Push(user_nav_stack, u, ListConversations)
        /\ normalized_button_actions' =
              build_user_tickets_keyboard(
                  normalized_button_actions,
                  IF r = "ok" THEN << TicketNo >> ELSE << >>)
        /\ tasks' = Finish(k)
        /\ view' = Say(u, k.op, "created", 0, FALSE)
        /\ UNCHANGED << waiting_for_message, user_ticket_id,
                        creating_conversation, awaiting_username,
                        awaiting_password, api_token >>

\* handle_send_message, up to the await of send_message_to_conversation
handle_send_message(u, t) ==
    /\ Route(u, t) = "send"
    /\ IF u \in DOMAIN user_ticket_id
       THEN /\ CanSpawn
            /\ tasks' = Spawn(Task(u, "send", "send",
                                   Ticket(user_ticket_id[u]), FALSE))
            /\ view' = view
       ELSE /\ view' = Say(u, "send", "no_ticket", 0, FALSE)
            /\ tasks' = tasks
    /\ UNCHANGED << session, api_token, normalized_button_actions >>

\* SendReturn leaving the reply mode once the message is sent
SendReturnLeaves(k, r) ==
    LET u == k.user
    IN  /\ k.pc = "send"
        /\ r \in SendOutcomes
        /\ tasks' = Finish(k)
        /\ IF r = "ok"
           THEN /\ normalized_button_actions' =
                      build_ticket_chat_keyboard(normalized_button_actions)
                /\ view' = Say(u, k.op, "sent", k.arg.id, FALSE)
                /\ waiting_for_message' = waiting_for_message \ {u}
           ELSE /\ view' = Say(u, k.op, "send_failed", k.arg.id, FALSE)
                /\ UNCHANGED << normalized_button_actions,
                                waiting_for_message >>
        /\ UNCHANGED << user_nav_stack, user_ticket_id, creating_conversation,
                        awaiting_username, awaiting_password, api_token >>

\* handle_send_message after send_message_to_conversation returns
SendReturn(k, r) ==
    LET u == k.user
    IN  /\ k.pc = "send"
        /\ r \in SendOutcomes
        /\ tasks' = Finish(k)
        /\ IF r = "ok"
           THEN /\ normalized_button_actions' =
                      build_ticket_chat_keyboard(normalized_button_actions)
                /\ view' = Say(u, k.op, "sent", k.arg.id, FALSE)
           ELSE \* None, or a status other than "success"
                /\ view' = Say(u, k.op, "send_failed", k.arg.id, FALSE)
                /\ UNCHANGED normalized_button_actions
        /\ UNCHANGED << session, api_token >>

(* ---------------------------- specification --------------------------- *)
\* a gateway call of a suspended handler returns
Returns ==
    \/ \E k \in BagToSet(tasks), r \in LoginOutcomes : LoginReturn(k, r)
          /\ UNCHANGED << children_buttons, markup >>
    \/ \E k \in BagToSet(tasks), r \in RootOutcomes : RootReturn(k, r)
          /\ UNCHANGED << children_buttons, markup >>
    \/ \E k \in BagToSet(tasks), r \in NodeOutcomes : NodeReturn(k, r)
          /\ UNCHANGED << children_buttons, markup >>
    \/ \E k \in BagToSet(tasks), r \in ListOutcomes : ListReturn(k, r)
          /\ UNCHANGED << children_buttons, markup >>
    \/ \E k \in BagToSet(tasks), r \in MessagesOutcomes : TicketReturn(k, r)
          /\ UNCHANGED << children_buttons, markup >>
    \/ \E k \in BagToSet(tasks) : TicketArm(k)
          /\ UNCHANGED << children_buttons, markup >>
    \/ \E k \in BagToSet(tasks), r \in CreateOutcomes : CreateReturn(k, r)
          /\ UNCHANGED << children_buttons, markup >>
    \/ \E k \in BagToSet(tasks), r \in ListOutcomes : CreateListReturn(k, r)
          /\ UNCHANGED << children_buttons, markup >>
    \/ \E k \in BagToSet(tasks), r \in SendOutcomes : SendReturn(k, r)
          /\ UNCHANGED << children_buttons, markup >>

\* text_message_handler
text_message_handler(u, t) ==
    \/ handle_username_input(u, t)
    \/ handle_password_input(u, t)
    \/ handle_back_action(u, t)
    \/ handle_home_action(u, t)
    \/ handle_conversation_creation(u, t)
    \/ handle_send_message(u, t)
    \/ handle_navigation_or_fallback(u, t)

\* the texts the model lets user u send
Sends(u, t) ==
    /\ t \in TextsOf(u)
    /\ u \in awaiting_username => t \in Names

\* a message of u that arrives while no handler of u is suspended
Serial(u, t) == ~Busy(u) /\ Sends(u, t)

\* a message of u that may arrive while a handler of u is suspended
Overlapping(u, t) == Sends(u, t) /\ (Busy(u) => t \in OverlapTexts)

\* Updates of different users are handled concurrently; each user's messages
\* are handled one at a time.
Next ==
    \/ \E u \in Starters : ~Busy(u) /\ start_handler(u)
          /\ UNCHANGED << children_buttons, markup >>
    \/ \E u \in Users, t \in Texts : Serial(u, t) /\ handle_username_input(u, t)
          /\ UNCHANGED << children_buttons, markup >>
    \/ \E u \in Users, t \in Texts : Serial(u, t) /\ handle_password_input(u, t)
          /\ UNCHANGED << children_buttons, markup >>
    \/ \E u \in Users, t \in Texts : Serial(u, t) /\ handle_back_action(u, t)
          /\ UNCHANGED << children_buttons, markup >>
    \/ \E u \in Users, t \in Texts : Serial(u, t) /\ handle_home_action(u, t)
          /\ UNCHANGED << children_buttons, markup >>
    \/ \E u \in Users, t \in Texts : Serial(u, t) /\ handle_conversation_creation(u, t)
          /\ UNCHANGED << children_buttons, markup >>
    \/ \E u \in Users, t \in Texts : Serial(u, t) /\ handle_send_message(u, t)
          /\ UNCHANGED << children_buttons, markup >>
    \/ \E u \in Users, t \in Texts : Serial(u, t) /\ handle_navigation_or_fallback(u, t)
          /\ UNCHANGED << children_buttons, markup >>
    \/ Returns

Spec == Init /\ [][Next]_vars

\* The dispatcher does not serialize the messages of one user either: a
\* message may arrive while a handler of the same user is suspended.
NextPar ==
    \/ \E u \in Starters : start_handler(u)
          /\ UNCHANGED << children_buttons, markup >>
    \/ \E u \in Users, t \in Texts : Overlapping(u, t) /\ handle_username_input(u, t)
          /\ UNCHANGED << children_buttons, markup >>
    \/ \E u \in Users, t \in Texts : Overlapping(u, t) /\ handle_password_input(u, t)
          /\ UNCHANGED << children_buttons, markup >>
    \/ \E u \in Users, t \in Texts : Overlapping(u, t) /\ handle_back_action(u, t)
          /\ UNCHANGED << children_buttons, markup >>
    \/ \E u \in Users, t \in Texts : Overlapping(u, t) /\ handle_home_action(u, t)
          /\ UNCHANGED << children_buttons, markup >>
    \/ \E u \in Users, t \in Texts : Overlapping(u, t) /\ handle_conversation_creation(u, t)
          /\ UNCHANGED << children_buttons, markup >>
    \/ \E u \in Users, t \in Texts : Overlapping(u, t) /\ handle_send_message(u, t)
          /\ UNCHANGED << children_buttons, markup >>
    \/ \E u \in Users, t \in Texts : Overlapping(u, t) /\ handle_navigation_or_fallback(u, t)
          /\ UNCHANGED << children_buttons, markup >>
    \/ Returns

SpecPar == Init /\ [][NextPar]_vars

(* ------------------------ make_keyboard alone ------------------------- *)
\* the buttons a content node may hold: two labels, with a next_node_id or
\* without one
ButtonChoices ==
    { Btn(t, n) : t \in { Txt("menu", TRUE, FALSE), Txt("info", TRUE, TRUE) },
                  n \in { NoNode, 2, 3 } }

\* the button lists of up to MaxButtons buttons
ButtonLists ==
    UNION { [1..n -> ButtonChoices] : n \in 0..MaxButtons }

\* make_keyboard is about to be called for a node with some button list,
\* the index being empty
InitKeyboard ==
    /\ user_nav_stack = [x \in {} |-> << >>]
    /\ waiting_for_message = {}
    /\ user_ticket_id = [x \in {} |-> 0]
    /\ creating_conversation = {}
    /\ awaiting_username = {}
    /\ awaiting_password = [x \in {} |-> BackLabel]
    /\ api_token = 0
    /\ normalized_button_actions = EmptyDict
    /\ tasks = EmptyBag
    /\ view = V(0, "none", "none", 0, FALSE)
    /\ children_buttons \in ButtonLists
    /\ markup = NoMarkup

\* make_keyboard(current_node_id, current_node_data, is_root)
BuildKeyboard ==
    /\ ~markup.built
    /\ \E is_root \in BOOLEAN :
          /\ markup' = Keyboard(TRUE, is_root,
                                KeyboardRows(children_buttons, is_root))
          /\ normalized_button_actions' =
                PutAll(normalized_button_actions,
                       KeyboardEntries(children_buttons, is_root))
    /\ UNCHANGED << session, api_token, tasks, view, children_buttons >>

NextKeyboard == BuildKeyboard

SpecKeyboard == InitKeyboard /\ [][NextKeyboard]_vars

(* ------------------------------ properties ---------------------------- *)
Suspended == BagToSet(tasks)

\* the navigation part of user u's session
NavOf(u) ==
    << StackOf(user_nav_stack, u), u \in waiting_for_message,
       u \in DOMAIN user_ticket_id, u \in creating_conversation >>

\* get_root_node is the one call the step adds for user u
AwaitsRoot(u) ==
    \E k \in BagToSet(tasks') :
        /\ k.user = u /\ k.pc = "root" /\ k.arg = NoAct /\ ~k.back
        /\ tasks' = tasks (+) SetToBag({k})

\* C1: in every reachable state, whatever the interleaving of the handlers
\* and the answers of the gateway, a history stack that exists has at least
\* one entry.
StackNeverEmpty ==
    \A u \in DOMAIN user_nav_stack : Len(user_nav_stack[u]) >= 1

\* Back has answered a user whose stack is down to one entry
StackNeverEmptyWitness ==
    /\ view.op = "back"
    /\ view.to \in DOMAIN user_nav_stack
    /\ Len(user_nav_stack[view.to]) = 1

\* C2 as stated: when the Home handler ends, whatever get_root_node
\* answered, the user's stack is exactly [root id].
HomeAlwaysYieldsRoot ==
    [][\A k \in Suspended, r \in RootOutcomes :
          (k.op = "home" /\ RootReturn(k, r))
          => /\ k.user \in DOMAIN user_nav_stack'
             /\ user_nav_stack'[k.user] = << NodeId(RootId) >>]_vars

\* C2 as amended: when the Home handler ends and get_root_node answered with
\* the root node, the user's stack is exactly [root id], whatever it was
\* before (a one-entry root stack included); when the call failed or the
\* answer had no id, the stack is left as it was.
HomeYieldsRootWhenFetched ==
    [][\A k \in Suspended, r \in RootOutcomes :
          (k.op = "home" /\ RootReturn(k, r))
          => IF r = "ok"
             THEN /\ k.user \in DOMAIN user_nav_stack'
                  /\ user_nav_stack'[k.user] = << NodeId(RootId) >>
                  /\ \A v \in DOMAIN user_nav_stack' \ {k.user} :
                        /\ v \in DOMAIN user_nav_stack
                        /\ user_nav_stack'[v] = user_nav_stack[v]
             ELSE user_nav_stack' = user_nav_stack]_vars

\* Home has shown the root menu and the stack is [root id]
HomeYieldsRootWitness ==
    /\ view.op = "home" /\ view.kind = "menu"
    /\ view.to \in DOMAIN user_nav_stack
    /\ user_nav_stack[view.to] = << NodeId(RootId) >>

\* C3: when the password step ends with a successful login and a loaded root
\* menu, the user's stack is [root id], waitingForMessage is false and
\* activeTicketId is unset.
LoginRunsHomeFlow ==
    [][\A k \in Suspended :
          (k.op = "password" /\ RootReturn(k, "ok"))
          => /\ user_nav_stack'[k.user] = << NodeId(RootId) >>
             /\ k.user \notin waiting_for_message'
             /\ k.user \notin DOMAIN user_ticket_id']_vars

\* C4: when Home, or a Back that falls through to Home, ends, none of
\* creatingConversation, waitingForMessage, activeTicketId is set for the
\* user.
HomeClearsFlowFlags ==
    [][\A k \in Suspended, r \in RootOutcomes :
          (k.op \in {"home", "back"} /\ RootReturn(k, r))
          => /\ k.user \notin creating_conversation'
             /\ k.user \notin waiting_for_message'
             /\ k.user \notin DOMAIN user_ticket_id']_vars

\* what the Home handler does up to its gateway call, whoever runs it
HomeEffect(u) ==
    /\ waiting_for_message' = waiting_for_message \ {u}
    /\ user_ticket_id' =
          [x \in DOMAIN user_ticket_id \ {u} |-> user_ticket_id[x]]
    /\ AwaitsRoot(u)
    /\ UNCHANGED << user_nav_stack, creating_conversation, awaiting_username,
                    awaiting_password, api_token, normalized_button_actions,
                    view >>

\* what the answer of get_root_node does to the session and the screen
RootEffect(u, r) ==
    /\ CASE r = "ok" ->
              /\ u \in DOMAIN user_nav_stack'
              /\ user_nav_stack'[u] = << NodeId(RootId) >>
              /\ view'.kind = "menu" /\ view'.id = RootId /\ view'.root
         [] r = "fail" ->
              /\ user_nav_stack' = user_nav_stack
              /\ view'.kind = "root_unavailable"
         [] OTHER ->
              /\ user_nav_stack' = user_nav_stack
              /\ view'.kind = "fault"
    /\ view'.to = u
    /\ \A v \in Users \ {u} :
          StackOf(user_nav_stack', v) = StackOf(user_nav_stack, v)
    /\ UNCHANGED << waiting_for_message, user_ticket_id,
                    creating_conversation, awaiting_username,
                    awaiting_password >>

\* C5: from a state whose stack has exactly one entry, Back does what Home
\* does from that state: the same flags cleared, the same stack, the same
\* gateway call (get_root_node), and for every answer of the gateway the
\* same resulting stack and the same message.
BackAtRootIsHome ==
    [][/\ \A u \in Users : \A t \in TextsOf(u) :
            (Len(StackOf(user_nav_stack, u)) = 1 /\ handle_back_action(u, t))
            => HomeEffect(u)
       /\ \A u \in Users : \A t \in TextsOf(u) :
            handle_home_action(u, t) => HomeEffect(u)
       /\ \A k \in Suspended, r \in RootOutcomes :
            (k.op \in {"back", "home"} /\ RootReturn(k, r))
            => RootEffect(k.user, r)]_vars

\* Back, sent on a one-entry stack, awaits the root node
BackAtRootIsHomeWitness ==
    \E k \in Suspended :
        /\ k.op = "back" /\ k.pc = "root"
        /\ Len(StackOf(user_nav_stack, k.user)) = 1

\* NodeId(n) has just been handled for u by pushing n and showing its menu,
\* and nothing was sent to anybody since
JustPushed(u) ==
    /\ view.to = u /\ view.op = "nav" /\ view.kind = "menu"
    /\ Len(StackOf(user_nav_stack, u)) > 1
    /\ Top(user_nav_stack, u) = NodeId(view.id)

\* the step appends NodeId(n) to u's stack and shows the menu of n
PushesNode(k) ==
    /\ k.user \in DOMAIN user_nav_stack'
    /\ user_nav_stack'[k.user] =
          Append(user_nav_stack[k.user], NodeId(k.arg.id))
    /\ view'.to = k.user /\ view'.kind = "menu" /\ view'.id = k.arg.id

\* the step takes u's stack back to the one under its top entry and starts
\* the replay of that stack's top
BackRestores(u) ==
    LET S == SubSeq(user_nav_stack[u], 1, Len(user_nav_stack[u]) - 1)
        e == S[Len(S)]
    IN  /\ u \in DOMAIN user_nav_stack'
        /\ user_nav_stack'[u] = S
        /\ IF e = SupportMenu
           THEN /\ view' = V(u, "back", "support", 0, FALSE)
                /\ tasks' = tasks
           ELSE /\ view' = view
                /\ \E k \in BagToSet(tasks') :
                      /\ k.user = u /\ k.op = "back" /\ k.back /\ k.arg = e
                      /\ k.pc = (CASE e.tag = "node" -> "node"
                                   [] e.tag = "list_conversations" -> "list"
                                   [] OTHER -> "ticket")
                      /\ tasks' = tasks (+) SetToBag({k})

\* a Back replay of user k.user answers right after the pushed menu
ReplayAfterPush(k) ==
    /\ k.op = "back" /\ k.back
    /\ view.to = k.user /\ view.op = "nav" /\ view.kind = "menu"

\* the view of the entry k.arg
ViewOfEntry(k) ==
    CASE k.arg.tag = "node" -> view'.kind = "menu" /\ view'.id = k.arg.id
      [] k.arg.tag = "list_conversations" ->
             view'.kind \in {"tickets", "no_tickets"}
      [] OTHER -> /\ view'.kind \in {"transcript", "empty_ticket"}
                  /\ view'.id = k.arg.id

\* the push and the Back of the round trip, common to both statements
RoundTripStack ==
    /\ \A k \in Suspended :
          ( /\ k.op = "nav" /\ NodeReturn(k, "ok")
            /\ Buttons(k.arg.id) # << >>
            /\ k.user \in DOMAIN user_nav_stack
            /\ Top(user_nav_stack, k.user) # k.arg )
          => PushesNode(k)
    /\ \A u \in Users : \A t \in TextsOf(u) :
          (JustPushed(u) /\ handle_back_action(u, t)) => BackRestores(u)
    /\ \A k \in Suspended :
          ( /\ ReplayAfterPush(k)
            /\ \/ \E r \in NodeOutcomes : NodeReturn(k, r)
               \/ \E r \in ListOutcomes : ListReturn(k, r)
               \/ \E r \in MessagesOutcomes : TicketReturn(k, r) )
          => /\ user_nav_stack' = user_nav_stack
             /\ Top(user_nav_stack, k.user) = k.arg
             /\ view'.to = k.user

Leaves == { n \in 1..4 : Buttons(n) = << >> }

\* no entry of any stack is a childless node
NoLeafOnStack(stk) ==
    \A u \in DOMAIN stk : \A i \in 1..Len(stk[u]) :
        ~(stk[u][i].tag = "node" /\ stk[u][i].id \in Leaves)

\* C7: a node fetched without child buttons is shown and never pushed: the
\* step that shows it leaves every stack as it was (so the menu that listed
\* it stays on top, a sibling is pushed above that menu and Back returns to
\* it), and no stack ever holds a childless node.
LeavesNeverPushed ==
    [][/\ NoLeafOnStack(user_nav_stack')
       /\ \A k \in Suspended :
            (NodeReturn(k, "ok") /\ k.arg.id \in Leaves)
            => /\ user_nav_stack' = user_nav_stack
               /\ view'.kind = "leaf" /\ view'.id = k.arg.id]_vars

\* a leaf is on show for a user whose stack ends with the menu listing it
LeavesNeverPushedWitness ==
    /\ view.kind = "leaf" /\ view.id \in Leaves
    /\ Len(StackOf(user_nav_stack, view.to)) >= 1
    /\ Top(user_nav_stack, view.to).tag = "node"
    /\ \E i \in 1..Len(Buttons(Top(user_nav_stack, view.to).id)) :
          Buttons(Top(user_nav_stack, view.to).id)[i].next_node_id = view.id

\* the text is kept, trimmed, as the user name and the password is asked
\* for; nothing else of the session moves and no gateway call is made
CapturesUsername(u, t) ==
    /\ u \notin awaiting_username'
    /\ awaiting_username' \ {u} = awaiting_username \ {u}
    /\ DOMAIN awaiting_password' = DOMAIN awaiting_password \cup {u}
    /\ awaiting_password'[u] = [t EXCEPT !.pad = FALSE]
    /\ \A v \in DOMAIN awaiting_password \ {u} :
          awaiting_password'[v] = awaiting_password[v]
    /\ view' = V(u, "username", "ask_password", 0, FALSE)
    /\ UNCHANGED << user_nav_stack, waiting_for_message, user_ticket_id,
                    creating_conversation, api_token,
                    normalized_button_actions, tasks >>

\* the text is used as the password of a login call, the one call the step
\* makes; the stored user name is dropped and nothing else moves
AttemptsPassword(u) ==
    /\ DOMAIN awaiting_password' = DOMAIN awaiting_password \ {u}
    /\ \A v \in DOMAIN awaiting_password' :
          awaiting_password'[v] = awaiting_password[v]
    /\ \E k \in BagToSet(tasks') :
          /\ k.user = u /\ k.op = "password" /\ k.pc = "login"
          /\ tasks' = tasks (+) SetToBag({k})
    /\ UNCHANGED << user_nav_stack, waiting_for_message, user_ticket_id,
                    creating_conversation, awaiting_username, api_token,
                    normalized_button_actions, view >>

\* C8: when a user has awaiting_username or awaiting_password set, any text
\* of theirs, the back and home labels included and whatever
\* creating_conversation and waiting_for_message are, is consumed as the
\* credential input: the user name when awaiting_username is set, else the
\* password; no Back, Home, ticket title, ticket reply or resolver step runs.
CredentialsFirst ==
    [][\A u \in Users : \A t \in TextsOf(u) :
          ( /\ u \in awaiting_username \/ u \in DOMAIN awaiting_password
            /\ text_message_handler(u, t) )
          => IF u \in awaiting_username
             THEN CapturesUsername(u, t)
             ELSE AttemptsPassword(u)]_vars

\* a text that normalizes to the home label was taken as the user name of a
\* user who is in a ticket-title or reply flow
CredentialsFirstWitness ==
    \E u \in DOMAIN awaiting_password :
        /\ normalize_text(awaiting_password[u]) = normalize_text(HomeLabel)
        /\ u \in creating_conversation \cup waiting_for_message

\* C9: /start, from any session state, sets awaiting_username and touches
\* nothing else; the next text of that user is captured as the user name
\* (awaiting_username cleared, awaiting_password holding the text) and the
\* text after that is the password attempt; in between only these steps
\* clear the two flags.
StartSupersedes ==
    [][/\ \A u \in Users :
            start_handler(u)
            => /\ u \in awaiting_username'
               /\ view' = V(u, "start", "ask_username", 0, FALSE)
               /\ UNCHANGED << user_nav_stack, waiting_for_message,
                               user_ticket_id, creating_conversation,
                               awaiting_password, tasks >>
       /\ \A u \in Users : \A t \in TextsOf(u) :
            (u \in awaiting_username /\ text_message_handler(u, t))
            => /\ u \notin awaiting_username'
               /\ u \in DOMAIN awaiting_password'
               /\ awaiting_password'[u] = [t EXCEPT !.pad = FALSE]
       /\ \A u \in Users : \A t \in TextsOf(u) :
            ( /\ u \notin awaiting_username
              /\ u \in DOMAIN awaiting_password
              /\ text_message_handler(u, t) )
            => /\ u \notin DOMAIN awaiting_password'
               /\ \E k \in BagToSet(tasks') :
                     /\ k.user = u /\ k.pc = "login"
                     /\ tasks' = tasks (+) SetToBag({k})
       /\ \A u \in Users :
            /\ (u \in awaiting_username /\ u \notin awaiting_username')
               => \E t \in TextsOf(u) : handle_username_input(u, t)
            /\ (u \in DOMAIN awaiting_password
                /\ u \notin DOMAIN awaiting_password')
               => \E t \in TextsOf(u) : handle_password_input(u, t)]_vars

\* /start, a name and a password were sent from deep inside the menus
StartSupersedesWitness ==
    \E k \in Suspended :
        /\ k.op = "password" /\ k.pc = "login"
        /\ Len(StackOf(user_nav_stack, k.user)) > 1

\* C10: when the login of a password attempt fails, the user has neither
\* awaiting_username nor awaiting_password set, is told to start again with
\* /start, and has the stack and the other flags they had when they sent the
\* password.
FailedLoginClearsFlags ==
    [][/\ \A k \in Suspended :
            LoginReturn(k, "fail")
            => /\ k.user \notin awaiting_username'
               /\ k.user \notin DOMAIN awaiting_password'
               /\ view' = V(k.user, "password", "bad_credentials", 0, FALSE)
               /\ UNCHANGED << user_nav_stack, waiting_for_message,
                               user_ticket_id, creating_conversation >>
       /\ \A u \in Users : \A t \in TextsOf(u) :
            handle_password_input(u, t)
            => /\ u \notin awaiting_username'
               /\ u \notin DOMAIN awaiting_password'
               /\ UNCHANGED << user_nav_stack, waiting_for_message,
                               user_ticket_id, creating_conversation >>
       /\ \A k \in Suspended :
            (k.pc = "login" /\ k \in BagToSet(tasks'))
            => /\ NavOf(k.user)' = NavOf(k.user)
               /\ Get(user_ticket_id', k.user) = Get(user_ticket_id, k.user)
               /\ k.user \notin awaiting_username'
               /\ k.user \notin DOMAIN awaiting_password']_vars

\* a user who has a stack was told to start again after a refused login
FailedLoginClearsFlagsWitness ==
    /\ view.kind = "bad_credentials"
    /\ view.to \notin awaiting_username
    /\ view.to \notin DOMAIN awaiting_password
    /\ Len(StackOf(user_nav_stack, view.to)) > 1

\* the text is taken as the title of a new ticket: create_ticket is the one
\* call the step makes, and the session and the index are left alone
StartsCreation(u) ==
    /\ \E k \in BagToSet(tasks') :
          /\ k.user = u /\ k.op = "create" /\ k.pc = "create"
          /\ tasks' = tasks (+) SetToBag({k})
    /\ UNCHANGED << session, normalized_button_actions, view >>

\* C11: from the stack [root id] Support gives [root id, support_menu];
\* NewConversation then sets creating_conversation and leaves the stack; the
\* next text that is not the back or home label is the ticket title; when
\* create_ticket answers, creating_conversation is cleared, and on a created
\* ticket list_conversations is pushed on the stack as it stood: from
\* [root id, support_menu] the stack is [root id, support_menu,
\* list_conversations].
SupportCreationFlow ==
    [][/\ \A u \in Users : \A t \in TextsOf(u) :
            ( /\ StackOf(user_nav_stack, u) = << NodeId(RootId) >>
              /\ Get(normalized_button_actions, normalize_text(t)) = SupportMenu
              /\ handle_navigation_or_fallback(u, t) )
            => /\ user_nav_stack'[u] = << NodeId(RootId), SupportMenu >>
               /\ view' = V(u, "nav", "support", 0, FALSE)
               /\ UNCHANGED creating_conversation
       /\ \A u \in Users : \A t \in TextsOf(u) :
            ( /\ Get(normalized_button_actions, normalize_text(t))
                    = NewConversation
              /\ handle_navigation_or_fallback(u, t) )
            => /\ u \in creating_conversation'
               /\ user_nav_stack' = user_nav_stack
               /\ view' = V(u, "nav", "ask_title", 0, FALSE)
       /\ \A u \in Users : \A t \in TextsOf(u) :
            ( /\ u \in creating_conversation
              /\ u \notin awaiting_username
              /\ u \notin DOMAIN awaiting_password
              /\ normalize_text(t) \notin { normalize_text(BackLabel),
                                            normalize_text(HomeLabel) }
              /\ text_message_handler(u, t) )
            => StartsCreation(u)
       /\ \A k \in Suspended :
            /\ \A r \in CreateOutcomes :
                 CreateReturn(k, r)
                 => /\ k.user \notin creating_conversation'
                    /\ user_nav_stack' = user_nav_stack
                    /\ (r = "ok") =
                          ([k EXCEPT !.pc = "create_list"] \in BagToSet(tasks'))
            /\ \A r \in ListOutcomes :
                 CreateListReturn(k, r)
                 => /\ k.user \notin creating_conversation'
                    /\ k.user \in DOMAIN user_nav_stack'
                    /\ user_nav_stack'[k.user] =
                          Append(StackOf(user_nav_stack, k.user),
                                 ListConversations)
                    /\ view' = V(k.user, "create", "created", 0, FALSE)
            /\ (k.op = "create" /\ ~(\E r \in ListOutcomes :
                                        CreateListReturn(k, r)))
               => StackOf(user_nav_stack', k.user)
                     = StackOf(user_nav_stack, k.user)]_vars

\* a ticket was created from the support menu opened at the root
SupportCreationFlowWitness ==
    /\ view.kind = "created"
    /\ StackOf(user_nav_stack, view.to)
          = << NodeId(RootId), SupportMenu, ListConversations >>

\* the answers of get_ticket_messages that are a list of well-formed
\* messages, an empty list, or no answer
ListedOutcomes == {"ok", "empty", "fail"}

\* C12: Ticket(id) handled as a fresh navigation or as a Back replay, with
\* messages, an empty list or a failed fetch: the ticket marker is pushed
\* exactly when the step is not a replay, the transcript or the empty-state
\* message is sent, and the handler ends with user_ticket_id = id and
\* waiting_for_message set, the marker on top of the stack.
TicketViewArms ==
    [][/\ \A k \in BagToSet(tasks') :
            k.pc = "ticket"
            => k.arg.tag = "ticket" /\ k.back = (k.op = "back")
       /\ \A k \in Suspended :
            /\ \A r \in ListedOutcomes :
                 TicketReturn(k, r)
                 => /\ StackOf(user_nav_stack', k.user) =
                          IF k.back THEN StackOf(user_nav_stack, k.user)
                          ELSE Append(StackOf(user_nav_stack, k.user), k.arg)
                    /\ [k EXCEPT !.pc = "ticket_arm"] \in BagToSet(tasks')
                    /\ view'.to = k.user /\ view'.id = k.arg.id
                    /\ view'.kind =
                          IF r = "ok" THEN "transcript" ELSE "empty_ticket"
            /\ TicketArm(k)
               => /\ k.user \in DOMAIN user_ticket_id'
                  /\ user_ticket_id'[k.user] = k.arg.id
                  /\ k.user \in waiting_for_message'
                  /\ user_nav_stack' = user_nav_stack
                  /\ Top(user_nav_stack, k.user) = k.arg
            /\ (k.pc = "ticket_arm" /\ ~TicketArm(k))
               => /\ StackOf(user_nav_stack', k.user)
                        = StackOf(user_nav_stack, k.user)
                  /\ k \in BagToSet(tasks')]_vars

\* Back has returned to a ticket and the reply mode is armed for it
TicketViewArmsWitness ==
    /\ view.kind = "ticket" /\ view.op = "back"
    /\ view.to \in waiting_for_message
    /\ view.to \in DOMAIN user_ticket_id
    /\ user_ticket_id[view.to] = view.id
    /\ Top(user_nav_stack, view.to) = Ticket(view.id)

\* C13: a text of a user in reply mode, when no credential flag is set and
\* the text is neither the back nor the home label, makes one call,
\* send_message_to_conversation for the user's user_ticket_id; the step, the
\* time the call is in flight and its answer, success or failure, leave the
\* stack, user_ticket_id, waiting_for_message and every other flag of every
\* user as they were, and the answer is told to the user.
ReplyKeepsSession ==
    [][/\ \A u \in Users : \A t \in TextsOf(u) :
            ( /\ u \in waiting_for_message
              /\ u \notin awaiting_username
              /\ u \notin DOMAIN awaiting_password
              /\ u \notin creating_conversation
              /\ normalize_text(t) \notin { normalize_text(BackLabel),
                                            normalize_text(HomeLabel) }
              /\ text_message_handler(u, t) )
            => /\ u \in DOMAIN user_ticket_id
               /\ \E k \in BagToSet(tasks') :
                     /\ k.user = u /\ k.pc = "send"
                     /\ k.arg = Ticket(user_ticket_id[u])
                     /\ tasks' = tasks (+) SetToBag({k})
               /\ UNCHANGED << session, view >>
       /\ \A k \in Suspended :
            /\ \A r \in SendOutcomes :
                 SendReturn(k, r)
                 => /\ UNCHANGED session
                    /\ k.user \in waiting_for_message
                    /\ Get(user_ticket_id, k.user) = k.arg.id
                    /\ view' = V(k.user, "send",
                                 IF r = "ok" THEN "sent" ELSE "send_failed",
                                 k.arg.id, FALSE)
            /\ (k.pc = "send" /\ k \in BagToSet(tasks'))
               => NavOf(k.user)' = NavOf(k.user)]_vars

\* a reply was sent and the user is still in the ticket
ReplyKeepsSessionWitness ==
    /\ view.kind = "sent"
    /\ view.to \in waiting_for_message
    /\ view.to \in DOMAIN user_ticket_id
    /\ user_ticket_id[view.to] = view.id
    /\ Top(user_nav_stack, view.to) = Ticket(view.id)

\* everything the session dictionaries hold for user u
SliceOf(u) ==
    << u \in DOMAIN user_nav_stack, StackOf(user_nav_stack, u),
       u \in awaiting_username,
       u \in DOMAIN awaiting_password, Get(awaiting_password, u),
       u \in creating_conversation, u \in waiting_for_message,
       u \in DOMAIN user_ticket_id, Get(user_ticket_id, u) >>

\* the step handles an event of user a: /start, a text, or a handler of a
\* going on after the answer of a gateway call
StepOf(a) ==
    \/ \E k \in Suspended :
          k.user = a /\ CopiesIn(k, tasks') < CopiesIn(k, tasks)
    \/ start_handler(a)
    \/ \E t \in TextsOf(a) : text_message_handler(a, t)

NoFatalError ==
    [][\A k \in Suspended :
          /\ (LoginReturn(k, "bad") => LoginReturn(k, "fail"))
          /\ (RootReturn(k, "bad") => RootReturn(k, "fail"))
          /\ (NodeReturn(k, "bad") => NodeReturn(k, "fail"))
          /\ (TicketReturn(k, "bad") => TicketReturn(k, "fail"))
          /\ (tasks' = Finish(k)
              => view'.to = k.user /\ view'.kind # "fault")]_vars

\* C16: in every reachable state a history stack that exists starts with
\* the id of the root node: only a successful load of the root menu creates
\* the stack of a user who has none.
StackStartsAtRoot ==
    \A u \in DOMAIN user_nav_stack :
        /\ user_nav_stack[u] # << >>
        /\ user_nav_stack[u][1] = NodeId(RootId)

\* the last message shows user u a childless node listed by the menu M on
\* top of u's stack, below which the stack has further entries
LeafUnderMenu(u) ==
    /\ view.to = u /\ view.kind = "leaf" /\ view.id \in Leaves
    /\ ~Busy(u)
    /\ Len(StackOf(user_nav_stack, u)) > 1
    /\ Top(user_nav_stack, u).tag = "node"
    /\ \E i \in 1..Len(Buttons(Top(user_nav_stack, u).id)) :
          Buttons(Top(user_nav_stack, u).id)[i].next_node_id = view.id

\* C17: Back sent while a childless node of the interior menu M is on show
\* (M on top of the stack, depth above one) replays M: the node fetched for
\* the answer is M and the top of the stack is still M.
BackFromLeafShowsMenu ==
    [][\A u \in Users :
          LeafUnderMenu(u)
          => \A t \in TextsOf(u) :
                handle_back_action(u, t)
                => /\ Top(user_nav_stack', u) = Top(user_nav_stack, u)
                   /\ \E k \in BagToSet(tasks') :
                         /\ k.user = u /\ k.back
                         /\ k.arg = Top(user_nav_stack, u)]_vars

\* the buttons of all rows, in reading order
RECURSIVE Flatten(_)
Flatten(rows) ==
    IF rows = << >> THEN << >> ELSE Head(rows) \o Flatten(Tail(rows))

\* the texts of the buttons that have a next_node_id, in the list's order
RECURSIVE LinkedTexts(_)
LinkedTexts(bs) ==
    IF bs = << >> THEN << >>
    ELSE (IF Head(bs).next_node_id # NoNode THEN << Head(bs).text >>
          ELSE << >>) \o LinkedTexts(Tail(bs))

\* C18: the markup make_keyboard returns for a button list shows, above the
\* support row and the back/home row, every button that has a next_node_id
\* once and in the list's order, in rows of two of which only the last may
\* hold one button; and the labels on the markup are, normalized, the labels
\* the call wrote to the index.
MarkupComplete ==
    markup.built
    => LET n == Len(markup.keyboard) - (IF markup.is_root THEN 1 ELSE 2)
           rows == SubSeq(markup.keyboard, 1, n)
           shown == Flatten(markup.keyboard)
       IN  /\ Flatten(rows) = LinkedTexts(children_buttons)
           /\ \A i \in 1..n :
                 Len(rows[i]) = 2 \/ (Len(rows[i]) = 1 /\ i = n)
           /\ { normalize_text(shown[i]) : i \in 1..Len(shown) }
              = DOMAIN normalized_button_actions

\* the index resolves every label of the keyboard of node n, built with
\* is_root, to the action the keyboard bound to it
Resolves(idx, n, is_root) ==
    \A i \in 1..Len(KeyboardEntries(Buttons(n), is_root)) :
        Get(idx, KeyboardEntries(Buttons(n), is_root)[i][1])
        = KeyboardEntries(Buttons(n), is_root)[i][2]

\* C19: while the menu last rendered to a user is the one on that user's
\* screen, a step that renders something to another user leaves every label
\* of that menu resolving, in the shared index, to the action the menu
\* bound to it.
IndexFollowsMarkup ==
    [][( /\ view.kind = "menu"
         /\ Resolves(normalized_button_actions, view.id, view.root)
         /\ view'.to # view.to )
       => Resolves(normalized_button_actions', view.id, view.root)]_vars

\* user u is in reply mode for the ticket of entry e, or in no reply mode
\* at all when e is no ticket
ArmedFor(u, e, waiting, ticket) ==
    IF e.tag = "ticket"
    THEN u \in waiting /\ u \in DOMAIN ticket /\ ticket[u] = e.id
    ELSE u \notin waiting /\ u \notin DOMAIN ticket

\* C20: Back on a stack of n > 1 entries drops the last entry and clears
\* waiting_for_message and user_ticket_id; the replay of the new top, for
\* every kind of entry and every answer of the gateway, leaves the stack at
\* these n - 1 entries and ends with the flags still cleared, or set for the
\* ticket when the new top is a ticket.
BackPopsOne ==
    [][/\ \A u \in Users :
            Len(StackOf(user_nav_stack, u)) > 1
            => \A t \in TextsOf(u) :
                  handle_back_action(u, t)
                  => /\ StackOf(user_nav_stack', u)
                        = SubSeq(user_nav_stack[u], 1,
                                 Len(user_nav_stack[u]) - 1)
                     /\ u \notin waiting_for_message'
                     /\ u \notin DOMAIN user_ticket_id'
       /\ \A k \in Suspended :
            ( /\ k.op = "back" /\ k.back
              /\ CopiesIn(k, tasks') < CopiesIn(k, tasks) )
            => /\ StackOf(user_nav_stack', k.user)
                  = StackOf(user_nav_stack, k.user)
               /\ Top(user_nav_stack, k.user) = k.arg
               /\ tasks' = Finish(k)
                  => ArmedFor(k.user, k.arg, waiting_for_message',
                              user_ticket_id')]_vars

\* C21: a tap resolved to a content node (no Back replay) whose fetch
\* fails or answers without a node ends with the "section unavailable"
\* message; the tap, the time the fetch is in flight and its answer leave
\* the stacks and the flags of the session as they were.
FailedFetchKeepsSession ==
    [][/\ \A u \in Users : \A t \in TextsOf(u) :
            ( /\ Get(normalized_button_actions, normalize_text(t)).tag = "node"
              /\ handle_navigation_or_fallback(u, t) )
            => /\ UNCHANGED session
               /\ \E k \in BagToSet(tasks') :
                     /\ k.user = u /\ k.pc = "node" /\ ~k.back
                     /\ k.arg = Get(normalized_button_actions, normalize_text(t))
                     /\ tasks' = tasks (+) SetToBag({k})
       /\ \A k \in Suspended :
            (k.pc = "node" /\ ~k.back)
            => /\ \A r \in {"fail", "bad"} :
                    NodeReturn(k, r)
                    => /\ UNCHANGED session
                       /\ view' = V(k.user, k.op, "section_unavailable",
                                    0, FALSE)
               /\ k \in BagToSet(tasks') => SliceOf(k.user)' = SliceOf(k.user)]_vars

\* the section was unavailable to a user who tapped a button below the root
\* menu, and the menu the button was on is still the top of the stack
FailedFetchKeepsSessionWitness ==
    /\ view.kind = "section_unavailable" /\ view.op = "nav"
    /\ Len(StackOf(user_nav_stack, view.to)) > 1
    /\ Top(user_nav_stack, view.to) = NodeId(2)

\* C22: in every reachable state, handlers of one user and of different
\* users interleaving freely, a user is in waiting_for_message exactly when
\* user_ticket_id holds a ticket for that user.
WaitingIffTicket ==
    \A u \in Users :
        u \in waiting_for_message <=> u \in DOMAIN user_ticket_id

\* a user is in reply mode for the ticket while a later message of the same
\* user, sent before the ticket was shown, is still being handled
WaitingIffTicketWitness ==
    \E k \in Suspended :
        /\ k.op = "back"
        /\ k.user \in waiting_for_message
        /\ k.user \in DOMAIN user_ticket_id
        /\ user_ticket_id[k.user] = TicketNo
        /\ view = V(k.user, "nav", "ticket", TicketNo, FALSE)

\* C23: with the messages of each user handled one at a time, no user is
\* in creating_conversation and in waiting_for_message at once, whatever
\* the events and the answers of the gateway.
CreatingExcludesWaiting ==
    \A u \in Users :
        ~(u \in creating_conversation /\ u \in waiting_for_message)

\* C24: whenever a user is in waiting_for_message and no handler of that
\* user is suspended, the top of the user's stack is the marker of the
\* ticket recorded in user_ticket_id.
ReplyModeOnTicket ==
    \A u \in Users :
        (u \in waiting_for_message /\ ~Busy(u))
        => /\ u \in DOMAIN user_ticket_id
           /\ StackOf(user_nav_stack, u) # << >>
           /\ Top(user_nav_stack, u) = Ticket(user_ticket_id[u])

\* C25: a user who never sent /start, and so never logged in, has no
\* history stack and no handler of theirs awaits a content node, the ticket
\* list, a transcript or the creation of a ticket, whatever the other users
\* have done in the process.
GuestIsolated ==
    \A u \in Users \ Starters :
        /\ u \notin DOMAIN user_nav_stack
        /\ \A k \in Suspended :
              k.user = u
              => k.pc \notin {"node", "list", "ticket", "create",
                              "create_list"}

=============================================================================
